---- MODULE Spec2Model ----
(***************************************************************************)
(* Maerchenweber backend: the session documents of the "gamesessions"      *)
(* collection and the coroutines that write them (the /start and /turn     *)
(* routes, GameEngine.generate_first_story / start_adventure,              *)
(* GameEngine.process_turn_async / process_turn / _recover_incomplete_     *)
(* turns, ImageGenerator.generate_choice_based_image).  Every database     *)
(* call (find_one, insert_one, update_one) is one atomic step; coroutines  *)
(* interleave between their database calls.                                *)
(***************************************************************************)
EXTENDS Integers, Sequences, FiniteSets, TLC

\* Number of POST /start requests and of POST /turn requests explored, and
\* the number of POST /turn requests explored where the rounds of a session
\* are followed through overlapping and later requests (RoundsSpec).
MaxStarts == 1
MaxTurnRequests == 2
MaxRoundsRequests == 3

\* Python None / a missing key.
NULL == "null"

\* game_mechanics defaults read by process_turn.
summarization_interval == 5
recent_turns_to_keep == 5

\* Fixed texts of the engine.
StartFallbackStory == "Oh, lass uns eine andere Geschichte beginnen! Was passiert als Naechstes?"
TurnFallbackStory == "Oh, das war eine interessante Wendung! Aber lass uns eine andere Richtung einschlagen."
SummaryPlaceholder == "Die Geschichte bisher: Du hast ein spannendes Abenteuer erlebt."
DefaultFunNugget == "Wusstest du? Jede Geschichte, die du erlebst, ist einzigartig und magisch!"

\* Python truthiness of an optional string.
Truthy(v) == v # NULL /\ v # ""

\* dict.get(key, default)
Get(d, key, default) == IF key \in DOMAIN d THEN d[key] ELSE default

\* str.strip() on the choice texts the narrator can send.
Strip(s) == IF s = " " THEN "" ELSE s

(***************************************************************************)
(* Replies of the external text service.                                   *)
(***************************************************************************)
\* Narrator: the call raises, the content is not JSON, or it is a JSON object.
\* The JSON object may list Mira with a description; or Mira with another
\* description, the Fox with none, an entry without a name and Mira once
\* more, without a description; or it may
\* lack story_text, choice_2 and characters_in_scene.
SceneMira == <<[name |-> "Mira", description |-> "girl with a red scarf"]>>
SceneMixed ==
  << [name |-> "Mira", description |-> "girl with a green hat"],
     [name |-> "Fox", description |-> NULL],
     [name |-> NULL, description |-> "a shadow"],
     [name |-> "Mira", description |-> NULL] >>
NarratorReplies ==
  << [kind |-> "error"],
     [kind |-> "garbage"],
     [kind |-> "json",
      data |-> [story_text |-> "draft", choice_1 |-> "a", choice_2 |-> "b",
                choice_3 |-> "c", characters_in_scene |-> SceneMira]],
     [kind |-> "json",
      data |-> [story_text |-> "draft", choice_1 |-> "a", choice_2 |-> "b",
                choice_3 |-> "c", characters_in_scene |-> SceneMixed]],
     [kind |-> "json", data |-> [choice_1 |-> "a", choice_3 |-> "c"]] >>

\* Safety classifier: the call raises, or it answers with a text (as characters).
SafetyReplies ==
  << [kind |-> "error", text |-> <<>>],
     [kind |-> "text", text |-> <<"S","A","F","E">>],
     [kind |-> "text", text |-> <<"U","N","S","A","F","E">>],
     [kind |-> "text", text |-> <<"u","n","s","a","f","e">>],
     [kind |-> "text", text |-> <<"N","O">>] >>

\* The external replies one start_adventure / process_turn run receives:
\* narrator and safety index the lists above; nugget and summarizer are the
\* outcome of the fun-fact and of the summarization call.
Replies(n, nugget, s, summarizer) ==
  [narrator |-> n, nugget |-> nugget, safety |-> s, summarizer |-> summarizer]
\* No reply has been received.
NoReplies == Replies(0, NULL, 0, NULL)
ReplySets ==
  << Replies(1, "ok", 2, "ok"),
     Replies(2, "ok", 2, "ok"),
     Replies(3, "ok", 2, "ok"),
     Replies(3, "ok", 1, "error"),
     Replies(3, "ok", 3, "ok"),
     Replies(3, "ok", 4, "ok"),
     Replies(4, "error", 5, "ok") >>


\* str.upper(), character by character.
UpperChar(c) ==
  CASE c = "u" -> "U" [] c = "n" -> "N" [] c = "s" -> "S" [] c = "a" -> "A"
    [] c = "f" -> "F" [] c = "e" -> "E" [] c = "o" -> "O" [] OTHER -> c
Upper(s) == [i \in 1..Len(s) |-> UpperChar(s[i])]

\* Python's `sub in s` on strings.
Contains(sub, s) ==
  \E i \in 0..(Len(s) - Len(sub)) : SubSeq(s, i + 1, i + Len(sub)) = sub

\* The classifier said "unsafe", in any letter case.
SaysUnsafe(reply) == reply.kind = "text" /\ Upper(reply.text) = <<"U","N","S","A","F","E">>

\* Mutant: an exception of the classifier call counts as "unsafe".
ValidateSafety_Mutant(reply) ==
  IF reply.kind = "error" THEN FALSE
  ELSE Contains(<<"S","A","F","E">>, Upper(reply.text))

\* GameEngine._validate_safety: True on any exception, else "SAFE" in response.upper().
ValidateSafety(reply) ==
  IF reply.kind = "error" THEN TRUE
  ELSE Contains(<<"S","A","F","E">>, Upper(reply.text))

\* Mutant: the except branch returns nothing instead of the default text.
GenerateFunNugget_Mutant(outcome) == IF outcome = "ok" THEN "fun fact" ELSE NULL

\* GameEngine._generate_fun_nugget: the default text on any exception.
GenerateFunNugget(outcome) == IF outcome = "ok" THEN "fun fact" ELSE DefaultFunNugget

\* Mutant: the except branch returns an empty text.
SummarizeHistory_Mutant(outcome, old_turns) ==
  IF outcome = "ok" THEN [text |-> "summary", turns |-> Len(old_turns)]
  ELSE [text |-> "", turns |-> 0]

\* GameEngine._summarize_history: the placeholder on any exception.
SummarizeHistory(outcome, old_turns) ==
  IF outcome = "ok" THEN [text |-> "summary", turns |-> Len(old_turns)]
  ELSE [text |-> SummaryPlaceholder, turns |-> 0]

(***************************************************************************)
(* Character registry.                                                     *)
(***************************************************************************)
\* CharacterManager.extract_characters_from_response
ExtractCharacters(response_data, current_round) ==
  LET scene == Get(response_data, "characters_in_scene", <<>>)
      named == SelectSeq(scene, LAMBDA c : Truthy(c.name))
  IN [i \in 1..Len(named) |->
        [name |-> named[i].name,
         first_seen_round |-> current_round,
         last_seen_round |-> current_round,
         description |-> IF Truthy(named[i].description)
                         THEN named[i].description ELSE NULL]]

\* Index of `name` in a registry list, 0 when absent.
IndexOfName(registry, name) ==
  IF \E i \in 1..Len(registry) : registry[i].name = name
  THEN CHOOSE i \in 1..Len(registry) :
         registry[i].name = name /\ \A j \in 1..(i - 1) : registry[j].name # name
  ELSE 0

\* Mutant: a known character is replaced by the new observation.
MergeOne_Mutant(registry, new_char, current_round) ==
  LET i == IndexOfName(registry, new_char.name)
  IN IF i > 0
     THEN [registry EXCEPT ![i] = new_char]
     ELSE IF new_char.description = NULL THEN registry
     ELSE Append(registry, new_char)

\* Mutant: every observation of a known character advances last_seen_round by one.
MergeOne_Counting_Mutant(registry, new_char, current_round) ==
  LET i == IndexOfName(registry, new_char.name)
  IN IF i > 0
     THEN [registry EXCEPT ![i].last_seen_round = @ + 1]
     ELSE IF new_char.description = NULL THEN registry
     ELSE Append(registry, new_char)

\* One iteration of the merge loop.
MergeOne(registry, new_char, current_round) ==
  LET i == IndexOfName(registry, new_char.name)
  IN IF i > 0
     THEN [registry EXCEPT ![i].last_seen_round = current_round]
     ELSE IF new_char.description = NULL THEN registry
     ELSE Append(registry, new_char)

\* The merge loop over new_characters.  (The registry after one iteration is
\* bound as the element of a one-element set, so that it is computed once.)
RECURSIVE MergeLoop(_, _, _)
MergeLoop(registry, new_characters, current_round) ==
  IF new_characters = <<>> THEN registry
  ELSE CHOOSE result \in
         { MergeLoop(merged, Tail(new_characters), current_round) :
             merged \in {MergeOne(registry, Head(new_characters), current_round)} } : TRUE

\* registry_map[char["name"]] = char: a name already in the dict keeps its
\* place and takes the new value, a new name is added at the end.
MapPut(registry_map, char) ==
  LET i == IndexOfName(registry_map, char.name)
  IN IF i > 0 THEN [registry_map EXCEPT ![i] = char] ELSE Append(registry_map, char)

\* registry_map = {char["name"]: char for char in existing_registry}, as the list
\* of its values: one entry per name, at the place of the name's first
\* occurrence, holding the name's last occurrence.
RECURSIVE RegistryMapFrom(_, _)
RegistryMapFrom(registry_map, rest) ==
  IF rest = <<>> THEN registry_map
  ELSE CHOOSE result \in
         { RegistryMapFrom(put, Tail(rest)) :
             put \in {MapPut(registry_map, Head(rest))} } : TRUE

RegistryMap(existing_registry) == RegistryMapFrom(<<>>, existing_registry)

\* CharacterManager.merge_characters
MergeCharacters(existing_registry, new_characters, current_round) ==
  MergeLoop(RegistryMap(existing_registry), new_characters, current_round)

(***************************************************************************)
(* Turns and recovery.                                                     *)
(***************************************************************************)
\* t.get("completed_at") is truthy
IsComplete(t) == t.completed_at # NULL

\* Mutant: only the last turn is looked at (and dropped when incomplete).
CompleteTurns_Mutant(turns) ==
  IF turns # <<>> /\ ~IsComplete(turns[Len(turns)])
  THEN SubSeq(turns, 1, Len(turns) - 1) ELSE turns

\* complete_turns = [t for t in turns if t.get("completed_at")]
CompleteTurns(turns) == SelectSeq(turns, IsComplete)

\* Mutant: the length test admits equality (<= instead of <).
RecoveryNeeded_Mutant(turns) == turns # <<>> /\ Len(CompleteTurns(turns)) <= Len(turns)

\* The condition under which _recover_incomplete_turns writes (and returns True).
RecoveryNeeded(turns) == turns # <<>> /\ Len(CompleteTurns(turns)) < Len(turns)

\* Mutant: recovery forgets to reset round to the number of complete turns.
RecoveredDoc_Mutant(doc, complete_turns) ==
  [doc EXCEPT !.turns = complete_turns,
              !.generation_status = IF complete_turns # <<>> THEN "ready" ELSE "error"]

\* The $set of _recover_incomplete_turns applied to a session document.
RecoveredDoc(doc, complete_turns) ==
  [doc EXCEPT !.turns = complete_turns,
              !.generation_status = IF complete_turns # <<>> THEN "ready" ELSE "error",
              !.round = Len(complete_turns)]

\* _recover_incomplete_turns run without interruption on a document.
Recover(doc) ==
  IF RecoveryNeeded(doc.turns) THEN RecoveredDoc(doc, CompleteTurns(doc.turns)) ELSE doc

\* Index of the first turn whose round is r (the positional operator turns.$), 0 if none.
FirstTurnWithRound(turns, r) ==
  IF \E i \in 1..Len(turns) : turns[i].round = r
  THEN CHOOSE i \in 1..Len(turns) :
         turns[i].round = r /\ \A j \in 1..(i - 1) : turns[j].round # r
  ELSE 0

Rounds(turns) == [i \in 1..Len(turns) |-> turns[i].round]

(***************************************************************************)
(* State.                                                                  *)
(*   db          the gamesessions collection; a session id is an index     *)
(*   fs          the generate_first_story coroutines, one per /start       *)
(*   tt          the process_turn_async coroutines, one per accepted /turn *)
(*   job         the image coroutine launched by each process_turn         *)
(*   overlapped  sessions on which a /turn was accepted while another      *)
(*               process_turn_async was still running                      *)
(*   pure        arguments and result of a function applied on its own     *)
(*               (merge_characters, the history of process_turn,           *)
(*               _analyze_scene_intensity, get_character_descriptions),    *)
(*               or the document and replies drawn for one                 *)
(*               process_turn_async coroutine run on its own, with what    *)
(*               its process_turn handed to the text service               *)
(***************************************************************************)
VARIABLES db, fs, tt, job, overlapped, pure

vars == <<db, fs, tt, job, overlapped, pure>>

Starts == 1..MaxStarts
Tasks == 1..MaxRoundsRequests
SessionIds == 1..Len(db)

\* The document create_session inserts.
NewSessionDoc ==
  [generation_status |-> "generating", generation_error |-> NULL, turns |-> <<>>,
   round |-> 0, summary |-> <<>>, character_registry |-> <<>>, pending_image |-> <<>>]

\* Locals of a generate_first_story / start_adventure coroutine: its own session,
\* the session start_adventure inserted, the external replies it received, its
\* story_text, and the step whose exception generate_first_story caught.
IdleFs == [pc |-> "idle", sid |-> 0, new_sid |-> 0, replies |-> NoReplies,
           story_text |-> NULL, error |-> NULL]
\* Locals of a process_turn_async / process_turn coroutine: complete_turns and
\* the result of _recover_incomplete_turns, the session read by find_one, the
\* external replies it is about to receive, the exception text, and the story
\* text process_turn returned.
\* `before` remembers the status and the number of turns the router saw when
\* it accepted the request, `alone` whether no other process_turn_async was
\* running on the session at that moment.
NotAccepted == [status |-> NULL, turns |-> 0]
IdleTask == [pc |-> "idle", sid |-> 0, choice |-> NULL, complete |-> <<>>,
             recovered |-> FALSE, session |-> NewSessionDoc, replies |-> NoReplies,
             error |-> NULL, ret |-> NULL, before |-> NotAccepted, alone |-> TRUE]
IdleJob == [pc |-> "none", sid |-> 0, round |-> 0]
\* No function is being applied on its own.
NoPure == [op |-> "none", registry |-> <<>>, observed |-> <<>>, round |-> 0,
           result |-> <<>>]

Init ==
  /\ db = <<>>
  /\ fs = [k \in Starts |-> IdleFs]
  /\ tt = [t \in Tasks |-> IdleTask]
  /\ job = [t \in Tasks |-> IdleJob]
  /\ overlapped = {}
  /\ pure = NoPure

\* A process_turn_async coroutine that has been launched and has not returned.
Running(t) == tt[t].pc \notin {"idle", "done", "failed", "raised"}

(***************************************************************************)
(* POST /start: create_session, then generate_first_story in background.   *)
(***************************************************************************)
\* routers/adventure.start_adventure: insert the session, launch the task.
StartRequest(k) ==
  /\ fs[k].pc = "idle"
  /\ \A j \in 1..(k - 1) : fs[j].pc # "idle"
  /\ db' = Append(db, NewSessionDoc)
  /\ fs' = [fs EXCEPT ![k] = [@ EXCEPT !.pc = "create", !.sid = Len(db) + 1]]
  /\ UNCHANGED <<pure, tt, job, overlapped>>

\* Mutant: the except branch records the message but not the status.
MarkedError_Mutant(doc, message) ==
  [doc EXCEPT !.generation_error = message]

\* The $set of generate_first_story's and process_turn_async's except branch.
MarkedError(doc, message) ==
  [doc EXCEPT !.generation_status = "error", !.generation_error = message]

\* The first turn start_adventure builds.
FirstTurn(story_text, choices, fun_nugget) ==
  [round |-> 1, choice_made |-> NULL, story_text |-> story_text, choices |-> choices,
   image_url |-> NULL, fun_nugget |-> fun_nugget, completed_at |-> NULL]

\* The session document start_adventure inserts.
AdventureDoc(first_turn, characters) ==
  [generation_status |-> "ready", generation_error |-> NULL, turns |-> <<first_turn>>,
   round |-> 1, summary |-> <<>>, character_registry |-> characters,
   pending_image |-> <<>>]

\* story_text after the safety step: the fallback when _validate_safety is False.
SafeStory(story_text, safety_reply, fallback) ==
  IF ValidateSafety(safety_reply) THEN story_text ELSE fallback

\* The three choices read from the narrator's JSON object.
MainChoices(response_data) ==
  << Strip(Get(response_data, "choice_1", "")),
     Strip(Get(response_data, "choice_2", "")),
     Strip(Get(response_data, "choice_3", "")) >>

\* The replies a start_adventure or process_turn run may receive: one of
\* ReplySets, or, for a coroutine run on its own on a drawn document and
\* where the rounds of a session are followed, the replies drawn at the start.
RepliesToDraw ==
  IF pure.op \in {"recover_run", "turn_run", "rounds_run"} THEN {pure.replies}
  ELSE {ReplySets[i] : i \in 1..Len(ReplySets)}

\* generate_first_story -> start_adventure up to insert_one.  The narrator
\* call raising or returning non-JSON makes start_adventure raise, and
\* generate_first_story marks its own session as failed.
FsCreate(k) ==
  /\ fs[k].pc = "create"
  /\ \E replies \in RepliesToDraw :
       LET reply == NarratorReplies[replies.narrator]
       IN IF reply.kind # "json"
          THEN /\ db' = [db EXCEPT ![fs[k].sid] = MarkedError(@, "narrator")]
               /\ fs' = [fs EXCEPT ![k] = [@ EXCEPT !.pc = "failed", !.error = "narrator"]]
          ELSE LET story_text == SafeStory(Get(reply.data, "story_text", ""),
                                           SafetyReplies[replies.safety],
                                           StartFallbackStory)
                   characters == ExtractCharacters(reply.data, 1)
                   first_turn == FirstTurn(story_text, MainChoices(reply.data),
                                           GenerateFunNugget(replies.nugget))
               IN /\ db' = Append(db, AdventureDoc(first_turn, characters))
                  /\ fs' = [fs EXCEPT ![k] = [@ EXCEPT !.pc = "image",
                                                !.replies = replies,
                                                !.new_sid = Len(db) + 1,
                                                !.story_text = story_text]]
  /\ UNCHANGED <<pure, tt, job, overlapped>>

\* start_adventure's blocking round-1 image.  The scene prompt or the scene
\* intensity may raise; when both return, get_random_variance raises
\* AttributeError, because it calls self.config.get_image_variance() and
\* ConfigLoader has no such method.  The update_one that would complete Turn 1
\* is never reached: start_adventure raises and generate_first_story marks
\* its own session as failed.
FsImage(k) ==
  /\ fs[k].pc = "image"
  /\ \E step \in {"prompt", "intensity", "variance"} :
       /\ db' = [db EXCEPT ![fs[k].sid] = MarkedError(@, step)]
       /\ fs' = [fs EXCEPT ![k] = [@ EXCEPT !.pc = "failed", !.replies = NoReplies,
                                     !.story_text = NULL, !.error = step]]
  /\ UNCHANGED <<pure, tt, job, overlapped>>

(***************************************************************************)
(* POST /turn: mark the session as generating, then process_turn_async.    *)
(***************************************************************************)
\* Mutant: the router turns a request down while the session is "generating".
TurnRequest_Mutant(t, sid) ==
  /\ tt[t].pc = "idle"
  /\ \A j \in 1..(t - 1) : tt[j].pc # "idle"
  /\ sid \in SessionIds
  /\ db[sid].generation_status # "generating"
  /\ db' = [db EXCEPT ![sid].generation_status = "generating"]
  /\ tt' = [tt EXCEPT ![t] = [@ EXCEPT !.pc = "recover", !.sid = sid, !.choice = "choice",
                                !.before = [status |-> db[sid].generation_status,
                                            turns |-> Len(db[sid].turns)],
                                !.alone = ~\E u \in Tasks :
                                             Running(u) /\ tt[u].sid = sid]]
  /\ overlapped' = IF \E u \in Tasks : Running(u) /\ tt[u].sid = sid
                   THEN overlapped \cup {sid} ELSE overlapped
  /\ UNCHANGED <<pure, fs, job>>

\* routers/adventure.process_turn: no check of the current status.
TurnRequest(t, sid) ==
  /\ tt[t].pc = "idle"
  /\ \A j \in 1..(t - 1) : tt[j].pc # "idle"
  /\ sid \in SessionIds
  /\ db' = [db EXCEPT ![sid].generation_status = "generating"]
  /\ tt' = [tt EXCEPT ![t] = [@ EXCEPT !.pc = "recover", !.sid = sid, !.choice = "choice",
                                !.before = [status |-> db[sid].generation_status,
                                            turns |-> Len(db[sid].turns)],
                                !.alone = ~\E u \in Tasks :
                                             Running(u) /\ tt[u].sid = sid]]
  /\ overlapped' = IF \E u \in Tasks : Running(u) /\ tt[u].sid = sid
                   THEN overlapped \cup {sid} ELSE overlapped
  /\ UNCHANGED <<pure, fs, job>>

\* _recover_incomplete_turns, its find_one: decide whether to write.
\* (_migrate_session_if_needed before it returns at once: every document has turns.)
RecoverRead(t) ==
  /\ tt[t].pc = "recover"
  /\ LET turns == db[tt[t].sid].turns IN
       IF RecoveryNeeded(turns)
       THEN tt' = [tt EXCEPT ![t] = [@ EXCEPT !.pc = "recover_write",
                                       !.complete = CompleteTurns(turns)]]
       ELSE tt' = [tt EXCEPT ![t] = [@ EXCEPT !.pc = "load"]]
  /\ UNCHANGED <<pure, db, fs, job, overlapped>>

\* _recover_incomplete_turns, its update_one.
RecoverWrite(t) ==
  /\ tt[t].pc = "recover_write"
  /\ db' = [db EXCEPT ![tt[t].sid] = RecoveredDoc(@, tt[t].complete)]
  /\ tt' = [tt EXCEPT ![t] = [@ EXCEPT !.pc = "load", !.recovered = TRUE,
                                !.complete = <<>>]]
  /\ UNCHANGED <<pure, fs, job, overlapped>>

\* process_turn, its find_one: the session the turn is computed from, and
\* the replies the external calls that follow will give.
Load(t) ==
  /\ tt[t].pc = "load"
  /\ \E replies \in RepliesToDraw :
       tt' = [tt EXCEPT ![t] = [@ EXCEPT !.pc = "generate", !.session = db[tt[t].sid],
                                        !.replies = replies]]
  /\ UNCHANGED <<pure, db, fs, job, overlapped>>

\* should_summarize
ShouldSummarize(new_round, turns) ==
  (new_round % summarization_interval) = 0 /\ Len(turns) > recent_turns_to_keep

\* Mutant: the whole turn list is taken as the old part.
OldTurns_Mutant(turns) == turns

\* old_turns = turns[:-recent_turns_to_keep]
OldTurns(turns) ==
  IF Len(turns) > recent_turns_to_keep
  THEN SubSeq(turns, 1, Len(turns) - recent_turns_to_keep) ELSE <<>>

\* recent_turns = turns[-recent_turns_to_keep:]
RecentTurns(turns) ==
  IF Len(turns) > recent_turns_to_keep
  THEN SubSeq(turns, Len(turns) - recent_turns_to_keep + 1, Len(turns)) ELSE turns

\* Mutant: the new summary replaces the rolling summary.
CurrentSummary_Mutant(session, new_round, outcome) ==
  IF ShouldSummarize(new_round, session.turns) /\ OldTurns(session.turns) # <<>>
  THEN <<SummarizeHistory(outcome, OldTurns(session.turns))>>
  ELSE session.summary

\* current_summary after the summarization step of process_turn.
CurrentSummary(session, new_round, outcome) ==
  IF ShouldSummarize(new_round, session.turns) /\ OldTurns(session.turns) # <<>>
  THEN session.summary \o <<SummarizeHistory(outcome, OldTurns(session.turns))>>
  ELSE session.summary

\* The turn process_turn appends.
NewTurn(new_round, choice_text, story_text, choices, fun_nugget) ==
  [round |-> new_round, choice_made |-> choice_text, story_text |-> story_text,
   choices |-> choices, image_url |-> NULL, fun_nugget |-> fun_nugget,
   completed_at |-> "ts"]

\* Mutant: the update does not set generation_status.
PersistedDoc_Mutant(doc, new_turn, updated_registry, new_round, should_summarize, current_summary) ==
  [doc EXCEPT !.turns = Append(@, new_turn),
              !.character_registry = updated_registry,
              !.round = new_round,
              !.summary = IF should_summarize /\ current_summary # <<>>
                          THEN current_summary ELSE @]

\* process_turn's update_one: $push the turn, $set registry, round, status (and summary).
PersistedDoc(doc, new_turn, updated_registry, new_round, should_summarize, current_summary) ==
  [doc EXCEPT !.turns = Append(@, new_turn),
              !.character_registry = updated_registry,
              !.round = new_round,
              !.generation_status = "ready",
              !.summary = IF should_summarize /\ current_summary # <<>>
                          THEN current_summary ELSE @]

\* GameEngine._turns_to_history_text: one line per choice made and per story
\* text, preceded by the summary when there is one.
RECURSIVE HistoryLines(_)
HistoryLines(turns) ==
  IF turns = <<>> THEN <<>>
  ELSE LET turn == Head(turns)
           choice_line == IF Truthy(turn.choice_made)
                          THEN <<"[Wahl]: " \o turn.choice_made>> ELSE <<>>
           story_line == IF Truthy(turn.story_text) THEN <<turn.story_text>> ELSE <<>>
       IN choice_line \o story_line \o HistoryLines(Tail(turns))

TurnsToHistoryText(turns, summary) ==
  [summary |-> summary, lines |-> HistoryLines(turns)]

\* What process_turn hands to the text service before the narrator answers:
\* whether it calls the summarizer and with which lines, and the history it
\* renders for the narrator.
Sent(session, summarizer_outcome) ==
  LET turns == session.turns
      new_round == session.round + 1
      should_summarize == ShouldSummarize(new_round, turns)
      summarizer_called == should_summarize /\ OldTurns(turns) # <<>>
      current_summary == CurrentSummary(session, new_round, summarizer_outcome)
  IN [summarizer_called |-> summarizer_called,
      summarizer_input |-> IF summarizer_called
                           THEN HistoryLines(OldTurns(turns)) ELSE <<>>,
      history |-> IF should_summarize
                  THEN TurnsToHistoryText(RecentTurns(turns), current_summary)
                  ELSE TurnsToHistoryText(turns, current_summary)]

\* Nothing has been handed to the text service.
NothingSent ==
  [summarizer_called |-> FALSE, summarizer_input |-> <<>>,
   history |-> TurnsToHistoryText(<<>>, <<>>)]

\* The record kept of a coroutine run on its own on a drawn document: what
\* its process_turn handed to the text service.
Observed(sent) ==
  IF pure.op \in {"recover_run", "turn_run"} THEN [pure EXCEPT !.result = sent]
  ELSE pure

\* process_turn from the summarization and narrator calls to its update_one,
\* and the launch of the image coroutine.
Persist(t) ==
  /\ tt[t].pc = "generate"
  /\ LET replies == tt[t].replies
         reply == NarratorReplies[replies.narrator]
         session == tt[t].session
         new_round == session.round + 1
         should_summarize == ShouldSummarize(new_round, session.turns)
         current_summary == CurrentSummary(session, new_round, replies.summarizer)
         story_text == SafeStory(Get(reply.data, "story_text", ""),
                                 SafetyReplies[replies.safety], TurnFallbackStory)
         new_characters == ExtractCharacters(reply.data, new_round)
         updated_registry == MergeCharacters(session.character_registry,
                                             new_characters, new_round)
         new_turn == NewTurn(new_round, tt[t].choice, story_text,
                             MainChoices(reply.data), GenerateFunNugget(replies.nugget))
     IN /\ reply.kind = "json"
        /\ db' = [db EXCEPT ![tt[t].sid] =
                    PersistedDoc(@, new_turn, updated_registry, new_round,
                                 should_summarize, current_summary)]
        /\ tt' = [tt EXCEPT ![t] = [@ EXCEPT !.pc = "done", !.ret = story_text,
                                      !.replies = NoReplies, !.recovered = FALSE,
                                      !.session = NewSessionDoc]]
        /\ job' = [job EXCEPT ![t] = [pc |-> "mark", sid |-> tt[t].sid,
                                      round |-> new_round]]
        /\ pure' = Observed(Sent(session, replies.summarizer))
  /\ UNCHANGED <<fs, overlapped>>

\* The text of the exception process_turn raises.
TurnError(reply) ==
  IF reply.kind = "garbage" THEN "Invalid response from narrator"
  ELSE IF reply.kind = "error" THEN "narrator" ELSE "persist"

\* process_turn raises (the narrator call failed, its content is not JSON, or
\* the final update_one failed) and process_turn_async catches the exception.
TurnFails(t) ==
  /\ tt[t].pc = "generate"
  /\ LET reply == NarratorReplies[tt[t].replies.narrator]
     IN /\ tt' = [tt EXCEPT ![t] = [@ EXCEPT !.pc = "mark_error",
                                      !.error = TurnError(reply),
                                      !.session = NewSessionDoc]]
        /\ pure' = Observed(Sent(tt[t].session, tt[t].replies.summarizer))
  /\ UNCHANGED <<db, fs, job, overlapped>>

\* process_turn_async's except branch, its _recover_incomplete_turns: first
\* the find_one, which decides whether to write, then, as a step of its own,
\* the update_one.  (process_turn has run the same recovery before anything
\* else, and it stores complete turns only, so the find_one of the except
\* branch finds nothing to remove.)
MarkRecover(t) ==
  /\ tt[t].pc \in {"mark_error", "mark_recover_write"}
  /\ IF tt[t].pc = "mark_error"
     THEN LET turns == db[tt[t].sid].turns IN
          /\ tt' = [tt EXCEPT ![t] =
                      IF RecoveryNeeded(turns)
                      THEN [@ EXCEPT !.pc = "mark_recover_write",
                                     !.complete = CompleteTurns(turns)]
                      ELSE [@ EXCEPT !.pc = "mark_write"]]
          /\ db' = db
     ELSE /\ db' = [db EXCEPT ![tt[t].sid] = RecoveredDoc(@, tt[t].complete)]
          /\ tt' = [tt EXCEPT ![t] = [@ EXCEPT !.pc = "mark_write", !.complete = <<>>]]
  /\ UNCHANGED <<pure, fs, job, overlapped>>

\* The except branch, its own update_one: generation_status = "error" with
\* the exception text.  Nothing catches a failure of this write: the
\* exception leaves process_turn_async and the session is left as it is.
MarkError(t) ==
  /\ tt[t].pc = "mark_write"
  /\ \E outcome \in {"ok", "raises"} :
       IF outcome = "ok"
       THEN /\ db' = [db EXCEPT ![tt[t].sid] = MarkedError(@, tt[t].error)]
            /\ tt' = [tt EXCEPT ![t] = [@ EXCEPT !.pc = "failed", !.error = NULL,
                                          !.replies = NoReplies, !.recovered = FALSE,
                                          !.before = NotAccepted]]
       ELSE /\ db' = db
            /\ tt' = [tt EXCEPT ![t] = [@ EXCEPT !.pc = "raised", !.error = NULL,
                                          !.replies = NoReplies, !.recovered = FALSE,
                                          !.before = NotAccepted]]
  /\ UNCHANGED <<pure, fs, job, overlapped>>

(***************************************************************************)
(* ImageGenerator.generate_choice_based_image, launched by process_turn.   *)
(***************************************************************************)
PendingImage(status, round, image_url, error) ==
  <<[status |-> status, round |-> round, image_url |-> image_url, error |-> error]>>

\* The except branch: pending_image = {status: failed, round, error}.
ImageFailedDoc(doc, round, error) ==
  [doc EXCEPT !.pending_image = PendingImage("failed", round, NULL, error)]

\* The except branch of generate_choice_based_image: its update_one records
\* the failure in pending_image.  Nothing catches a failure of this write: the
\* exception leaves the coroutine and pending_image stays as it is.
ImageExcept(t, error, outcome) ==
  IF outcome = "ok"
  THEN /\ db' = [db EXCEPT ![job[t].sid] = ImageFailedDoc(@, job[t].round, error)]
       /\ job' = [job EXCEPT ![t].pc = "failed"]
  ELSE /\ db' = db
       /\ job' = [job EXCEPT ![t].pc = "raised"]

\* Step 1: pending_image = {status: generating, round}; if this write raises,
\* the except branch runs at once.
JobMark(t) ==
  /\ job[t].pc = "mark"
  /\ \/ /\ db' = [db EXCEPT ![job[t].sid].pending_image =
                    PendingImage("generating", job[t].round, NULL, NULL)]
        /\ job' = [job EXCEPT ![t].pc = "generate"]
     \/ \E outcome \in {"ok", "raises"} : ImageExcept(t, "marking", outcome)
  /\ UNCHANGED <<pure, fs, tt, overlapped>>

\* Steps 2-4 and the except branch.  The scene prompt (step 2) or the scene
\* intensity (step 3) may raise; when both return, step 4 raises
\* AttributeError: get_random_variance calls self.config.get_image_variance(),
\* a method ConfigLoader does not have.  Steps 5-7 (final prompt, image call,
\* the update_one that stores the URL) are never reached.
JobFails(t) ==
  /\ job[t].pc = "generate"
  /\ \E step \in {"prompt", "intensity", "variance"}, outcome \in {"ok", "raises"} :
       ImageExcept(t, step, outcome)
  /\ UNCHANGED <<pure, fs, tt, overlapped>>

(***************************************************************************)
(* GET /status/{session_id}: the status poll, which only reads.            *)
(***************************************************************************)
\* AdventureStepResponse accepts exactly three choices.
ValidStep(choices) == Len(choices) = 3

\* routers/adventure.get_story_status on a stored session: the fields it
\* reads with session.get, and HTTP 500 when building the step raises.
\* generation_error is a key only the except branches add (with a text, never
\* with None), so a session holding NULL for it has no such key and the
\* default is what session.get gives.
GetStoryStatus(session) ==
  LET generation_status == Get(session, "generation_status", "unknown")
      story_text == Get(session, "current_story", "")
      choices == Get(session, "current_choices", <<>>)
  IN IF generation_status = "ready"
     THEN IF ValidStep(choices)
          THEN [code |-> 200, status |-> "ready", story_text |-> story_text,
                choices |-> choices, error |-> NULL]
          ELSE [code |-> 500, status |-> NULL, story_text |-> NULL,
                choices |-> <<>>, error |-> "Failed to fetch status"]
     ELSE IF generation_status = "error"
     THEN [code |-> 200, status |-> "error", story_text |-> NULL, choices |-> <<>>,
           error |-> IF session.generation_error = NULL
                     THEN "Unknown error occurred" ELSE session.generation_error]
     ELSE [code |-> 200, status |-> "generating", story_text |-> NULL,
           choices |-> <<>>, error |-> NULL]

\* routers/adventure.get_image_status on a stored session: the pending_image
\* slot when it is of the requested round, else the first image_history entry
\* of that round, else "not_found".
GetImageStatus(session, round) ==
  LET pending_image == session.pending_image
      image_history == Get(session, "image_history", <<>>)
      found == {i \in 1..Len(image_history) : image_history[i].round = round}
  IN IF pending_image # <<>> /\ pending_image[1].round = round
     THEN [status |-> pending_image[1].status, round |-> round,
           image_url |-> pending_image[1].image_url, error |-> pending_image[1].error]
     ELSE IF found # {}
     THEN [status |-> "ready", round |-> round,
           image_url |-> image_history[CHOOSE i \in found : \A j \in found : i <= j].url,
           error |-> NULL]
     ELSE [status |-> "not_found", round |-> round, image_url |-> NULL,
           error |-> "No image generation found"]

(***************************************************************************)
(* Specification.                                                          *)
(***************************************************************************)
Next ==
  \/ \E k \in Starts : StartRequest(k) \/ FsCreate(k) \/ FsImage(k)
  \/ \E t \in 1..MaxTurnRequests, sid \in SessionIds : TurnRequest(t, sid)
  \/ \E t \in Tasks : RecoverRead(t) \/ RecoverWrite(t) \/ Load(t)
  \/ \E t \in Tasks : Persist(t) \/ TurnFails(t)
  \/ \E t \in Tasks : MarkRecover(t) \/ MarkError(t)
  \/ \E t \in Tasks : JobMark(t) \/ JobFails(t)

Spec == Init /\ [][Next]_vars

\* One step of the process_turn_async coroutine t, of the generate_first_story
\* coroutine k, and of the image coroutine launched by task t.  Each of them
\* is an asyncio task; every step is a database call or an external call that
\* returns or fails, so a launched coroutine that can take a step eventually
\* takes it.  Requests (POST /start, POST /turn) are the client's: nothing
\* makes them arrive.
TaskStep(t) ==
  \/ RecoverRead(t) \/ RecoverWrite(t) \/ Load(t) \/ Persist(t) \/ TurnFails(t)
  \/ MarkRecover(t) \/ MarkError(t)

FirstStoryStep(k) == FsCreate(k) \/ FsImage(k)

ImageStep(t) == JobMark(t) \/ JobFails(t)

FairSpec ==
  /\ Spec
  /\ \A t \in Tasks : WF_vars(TaskStep(t)) /\ WF_vars(ImageStep(t))
  /\ \A k \in Starts : WF_vars(FirstStoryStep(k))

(***************************************************************************)
(* Functions applied on their own: merge_characters on drawn arguments,    *)
(* the history text process_turn renders for a session that has been       *)
(* through a number of turns, _analyze_scene_intensity on drawn replies    *)
(* and get_character_descriptions on drawn names.                          *)
(***************************************************************************)
\* Longest characters_in_scene list drawn, highest round rendered or
\* processed, and longest turn list handed to recovery.
MaxObserved == 3
MaxRounds == 16
MaxStoredTurns == 3

\* Entries the narrator can put into characters_in_scene.
SceneEntries ==
  [name : {"Mira", "Fox", NULL},
   description : {NULL, "girl with a red scarf", "girl with a green hat"}]

\* All lists of at most n entries.
RECURSIVE Scenes(_)
Scenes(n) ==
  IF n = 0 THEN {<<>>}
  ELSE Scenes(n - 1) \cup
       {Append(scene, e) : scene \in {x \in Scenes(n - 1) : Len(x) = n - 1},
                           e \in SceneEntries}

\* Registries found in stored sessions: empty, or as start_adventure stored
\* them in round 1.
KnownRegistries ==
  { <<>>,
    ExtractCharacters([characters_in_scene |-> SceneMira], 1),
    ExtractCharacters([characters_in_scene |-> SceneMixed], 1),
    ExtractCharacters([characters_in_scene |->
        <<[name |-> "Fox", description |-> "girl with a green hat"],
          [name |-> "Mira", description |-> "girl with a green hat"]>>], 1) }

\* The narrator's story text and the user's choice of round r.
StoryOf(r) == "story " \o ToString(r)
ChoiceOf(r) == "choice " \o ToString(r)

\* The document after process_turn number new_round has persisted its turn
\* (every external call succeeding).
TurnPersisted(session, new_round) ==
  LET should_summarize == ShouldSummarize(new_round, session.turns)
      current_summary == CurrentSummary(session, new_round, "ok")
      new_turn == NewTurn(new_round, ChoiceOf(new_round), StoryOf(new_round),
                          <<"a", "b", "c">>, GenerateFunNugget("ok"))
  IN PersistedDoc(session, new_turn, session.character_registry, new_round,
                  should_summarize, current_summary)

\* The session create_session inserted, after n turns processed one by one.
RECURSIVE SessionAfter(_)
SessionAfter(n) ==
  IF n = 0 THEN NewSessionDoc ELSE TurnPersisted(SessionAfter(n - 1), n)

\* history_text of process_turn for the round after session.round.
HistoryText(session) ==
  LET new_round == session.round + 1
  IN IF ShouldSummarize(new_round, session.turns)
     THEN TurnsToHistoryText(RecentTurns(session.turns),
                             CurrentSummary(session, new_round, "ok"))
     ELSE TurnsToHistoryText(session.turns, session.summary)

\* Stored documents handed to recovery: a session after up to MaxStoredTurns
\* turns, in any status, with any of its turns lacking completed_at.
RecoveryDocs ==
  { [SessionAfter(n) EXCEPT
       !.generation_status = status,
       !.turns = [i \in 1..n |-> IF i \in incomplete
                                  THEN [@[i] EXCEPT !.completed_at = NULL] ELSE @[i]]] :
      n \in 0..MaxStoredTurns, status \in {"generating", "ready", "error"},
      incomplete \in SUBSET (1..MaxStoredTurns) }

\* Every combination of outcomes of the four external calls of one turn.
TurnReplies ==
  { Replies(n, nugget, safety, summarizer) :
      n \in 1..Len(NarratorReplies), nugget \in {"ok", "error"},
      safety \in 1..Len(SafetyReplies), summarizer \in {"ok", "error"} }

\* A JSON value as Python sees it: its type and, for the numeric types and
\* bool (a subclass of int: True is 1, False is 0), the number it compares as.
JsonValue(type, value) == [type |-> type, value |-> value]
DefaultIntensity == JsonValue("int", 3)

\* Values the classifier can put into intensity_level.
IntensityValues ==
  {JsonValue("int", n) : n \in 0..6} \cup
  {JsonValue("bool", 1), JsonValue("bool", 0), JsonValue("float", 4),
   JsonValue("str", 4), JsonValue("null", 0)}

\* What json.loads is given: an object with intensity_level, an object
\* without it, a list, or something that is not JSON.
IntensityBodies ==
  {[kind |-> "object", data |-> [intensity_level |-> v]] : v \in IntensityValues} \cup
  {[kind |-> "object", data |-> [reason |-> JsonValue("str", 0)]],
   [kind |-> "list"], [kind |-> "invalid"]}

\* The markdown fences a reply can come wrapped in: three backquotes followed
\* by json, and three backquotes.
FenceJson == [kind |-> "fence_json"]
Fence == [kind |-> "fence"]

\* Replies of the classifier call: the call raises, or it returns a text.
IntensityReplies ==
  {[kind |-> "error", text |-> <<>>]} \cup
  {[kind |-> "text", text |-> text] :
     text \in UNION {{<<body>>, <<FenceJson, body, Fence>>, <<Fence, body, Fence>>,
                      <<FenceJson, body>>, <<Fence, FenceJson, body, Fence>>} :
                     body \in IntensityBodies}}

\* The clean-up of the reply: a leading json fence, then a leading fence,
\* then a trailing fence are removed.
CleanFences(text) ==
  LET a == IF text # <<>> /\ Head(text) = FenceJson THEN Tail(text) ELSE text
      b == IF a # <<>> /\ Head(a) = Fence THEN Tail(a) ELSE a
  IN IF b # <<>> /\ b[Len(b)] = Fence THEN SubSeq(b, 1, Len(b) - 1) ELSE b

\* isinstance(intensity, int)
IsInstanceInt(v) == v.type \in {"int", "bool"}

\* ImageGenerator._analyze_scene_intensity.  The import of json inside the try
\* makes json a local name: when the call raises before the import has run,
\* evaluating the clause except json.JSONDecodeError raises UnboundLocalError, which
\* leaves the function.
AnalyzeSceneIntensity(reply) ==
  IF reply.kind = "error"
  THEN [raised |-> TRUE, value |-> DefaultIntensity]
  ELSE LET result_clean == CleanFences(reply.text)
       IN IF Len(result_clean) # 1 \/ result_clean[1].kind # "object"
          THEN [raised |-> FALSE, value |-> DefaultIntensity]
          ELSE LET intensity == Get(result_clean[1].data, "intensity_level",
                                    DefaultIntensity)
               IN IF ~IsInstanceInt(intensity) \/ intensity.value < 1
                       \/ intensity.value > 5
                  THEN [raised |-> FALSE, value |-> DefaultIntensity]
                  ELSE [raised |-> FALSE, value |-> intensity]

\* Names a caller can ask descriptions for, and all lists of at most n of them.
RequestableNames == {"Mira", "Fox", "Owl"}
RECURSIVE NameLists(_)
NameLists(n) ==
  IF n = 0 THEN {<<>>}
  ELSE NameLists(n - 1) \cup
       {Append(names, name) : names \in {x \in NameLists(n - 1) : Len(x) = n - 1},
                              name \in RequestableNames}

\* registry_map[name] = char.get("description", "") for every entry with a
\* name: a dict from names to descriptions, a later entry of a name replacing
\* an earlier one.  An entry stored without description has no such key
\* (extract_characters_from_response adds the key only when a description was
\* given), so the default "" is what is read.
RECURSIVE DescriptionMapFrom(_, _)
DescriptionMapFrom(registry_map, rest) ==
  IF rest = <<>> THEN registry_map
  ELSE LET char == Head(rest)
           description == IF char.description = NULL THEN "" ELSE char.description
           put == IF Truthy(char.name)
                  THEN [name \in DOMAIN registry_map \cup {char.name} |->
                          IF name = char.name THEN description ELSE registry_map[name]]
                  ELSE registry_map
       IN DescriptionMapFrom(put, Tail(rest))

\* CharacterManager.get_character_descriptions: the dict it returns.
GetCharacterDescriptions(character_registry, character_names) ==
  LET registry_map == DescriptionMapFrom([name \in {} |-> ""], character_registry)
  IN [name \in {character_names[i] : i \in 1..Len(character_names)} |->
        IF name \in DOMAIN registry_map THEN registry_map[name] ELSE ""]

PureInit ==
  /\ db = <<>>
  /\ fs = [k \in Starts |-> IdleFs]
  /\ tt = [t \in Tasks |-> IdleTask]
  /\ job = [t \in Tasks |-> IdleJob]
  /\ overlapped = {}
  /\ \/ \E registry \in KnownRegistries, scene \in Scenes(MaxObserved) :
          pure = [op |-> "merge_args", registry |-> registry,
                  observed |-> ExtractCharacters([characters_in_scene |-> scene], 2),
                  round |-> 2, result |-> <<>>]
     \/ \E r \in 1..MaxRounds :
          pure = [op |-> "history_args", registry |-> <<>>, observed |-> <<>>,
                  round |-> r, result |-> <<>>]
     \/ \E reply \in IntensityReplies :
          pure = [op |-> "intensity_args", reply |-> reply, result |-> <<>>]
     \/ \E registry \in KnownRegistries, names \in NameLists(MaxObserved) :
          pure = [op |-> "describe_args", registry |-> registry, names |-> names,
                  result |-> <<>>]

\* merge_characters(existing_registry, new_characters, current_round)
ApplyMerge ==
  /\ pure.op = "merge_args"
  /\ pure' = [pure EXCEPT !.op = "merged",
                          !.result = MergeCharacters(pure.registry, pure.observed,
                                                     pure.round)]
  /\ UNCHANGED <<db, fs, tt, job, overlapped>>

\* process_turn renders the history for round pure.round.
ApplyHistory ==
  /\ pure.op = "history_args"
  /\ pure' = [pure EXCEPT !.op = "history",
                          !.result = HistoryText(SessionAfter(pure.round - 1))]
  /\ UNCHANGED <<db, fs, tt, job, overlapped>>

\* _analyze_scene_intensity(story_text) with the classifier's reply.
ApplyIntensity ==
  /\ pure.op = "intensity_args"
  /\ pure' = [pure EXCEPT !.op = "intensity",
                          !.result = AnalyzeSceneIntensity(pure.reply)]
  /\ UNCHANGED <<db, fs, tt, job, overlapped>>

\* get_character_descriptions(character_registry, character_names)
ApplyDescribe ==
  /\ pure.op = "describe_args"
  /\ pure' = [pure EXCEPT !.op = "described",
                          !.result = GetCharacterDescriptions(pure.registry, pure.names)]
  /\ UNCHANGED <<db, fs, tt, job, overlapped>>

PureNext ==
  ApplyMerge \/ ApplyHistory \/ ApplyIntensity \/ ApplyDescribe

PureSpec == PureInit /\ [][PureNext]_vars

(***************************************************************************)
(* One process_turn_async coroutine run on its own: the session is a drawn *)
(* stored document, no other request arrives, and the coroutine and the    *)
(* image coroutine it launches take the steps they take in Spec.           *)
(***************************************************************************)
\* The coroutine that is run.
Solo == 1

\* process_turn_async(session_id, choice_text) has been called on the drawn
\* document: either a document with turns lacking completed_at, or the
\* session as it is before round r.
SoloInit ==
  /\ fs = [k \in Starts |-> IdleFs]
  /\ job = [t \in Tasks |-> IdleJob]
  /\ overlapped = {}
  /\ \E replies \in TurnReplies :
       \/ \E doc \in RecoveryDocs :
            /\ pure = [op |-> "recover_run", doc |-> doc, round |-> 0,
                       replies |-> replies, result |-> NothingSent]
            /\ db = <<doc>>
            /\ tt = [t \in Tasks |->
                       IF t = Solo
                       THEN [IdleTask EXCEPT !.pc = "recover", !.sid = 1,
                                             !.choice = "choice"]
                       ELSE IdleTask]
       \/ \E r \in 1..MaxRounds :
            /\ pure = [op |-> "turn_run", doc |-> SessionAfter(r - 1), round |-> r,
                       replies |-> replies, result |-> NothingSent]
            /\ db = <<SessionAfter(r - 1)>>
            /\ tt = [t \in Tasks |->
                       IF t = Solo
                       THEN [IdleTask EXCEPT !.pc = "recover", !.sid = 1,
                                             !.choice = ChoiceOf(r)]
                       ELSE IdleTask]

SoloNext ==
  \/ RecoverRead(Solo) \/ RecoverWrite(Solo) \/ Load(Solo)
  \/ Persist(Solo) \/ TurnFails(Solo)
  \/ MarkRecover(Solo) \/ MarkError(Solo)
  \/ JobMark(Solo) \/ JobFails(Solo)

SoloSpec == SoloInit /\ [][SoloNext]_vars

(***************************************************************************)
(* The rounds of a session followed through MaxRoundsRequests turn         *)
(* requests: the program from its start, with the process_turn executions  *)
(* of one run all receiving the external replies drawn at the start.       *)
(***************************************************************************)
\* The replies drawn: the narrator's content is not JSON, or every external
\* call succeeds.  (A process_turn that has a JSON reply may still fail, at
\* its update_one.)
RoundsReplies == {ReplySets[2], ReplySets[3]}

RoundsInit ==
  /\ db = <<>>
  /\ fs = [k \in Starts |-> IdleFs]
  /\ tt = [t \in Tasks |-> IdleTask]
  /\ job = [t \in Tasks |-> IdleJob]
  /\ overlapped = {}
  /\ \E replies \in RoundsReplies :
       pure = [op |-> "rounds_run", replies |-> replies]

RoundsNext ==
  \/ \E k \in Starts : StartRequest(k) \/ FsCreate(k) \/ FsImage(k)
  \/ \E t \in Tasks, sid \in SessionIds : TurnRequest(t, sid)
  \/ \E t \in Tasks : RecoverRead(t) \/ RecoverWrite(t) \/ Load(t)
  \/ \E t \in Tasks : Persist(t) \/ TurnFails(t)
  \/ \E t \in Tasks : MarkRecover(t) \/ MarkError(t)
  \/ \E t \in Tasks : JobMark(t) \/ JobFails(t)

RoundsSpec == RoundsInit /\ [][RoundsNext]_vars

(***************************************************************************)
(* Properties.                                                             *)
(***************************************************************************)
LastTurn(s) == db[s].turns[Len(db[s].turns)]

\* The process_turn of task t has run its _recover_incomplete_turns.
RecoveryRanBy(t) ==
  tt[t].pc \in {"load", "generate", "done", "mark_error", "mark_recover_write",
               "mark_write", "failed", "raised"}

\* Some process_turn has run _recover_incomplete_turns on session s.
RecoveryHasRun(s) == \E t \in Tasks : tt[t].sid = s /\ RecoveryRanBy(t)

\* From the request of task t on, the process_turn_async executions on its
\* session ran one at a time: none was running when the request of t was
\* accepted, nor when a later request on the session was.
OneAtATimeSince(t) ==
  /\ tt[t].alone
  /\ \A u \in Tasks :
       u > t /\ tt[u].pc # "idle" /\ tt[u].sid = tt[t].sid => tt[u].alone

\* Session s was inserted by start_adventure.
InsertedByStartAdventure(s) == \E k \in Starts : fs[k].new_sid = s

RoundsAreOneToN(s) == Rounds(db[s].turns) = [i \in 1..Len(db[s].turns) |-> i]

\* C1: in every reachable state, generation_status = "ready" implies that the
\* session has at least one turn and that its last turn has completed_at set.
C1_ReadyImpliesLastTurnComplete ==
  \A s \in SessionIds :
    db[s].generation_status = "ready" =>
      db[s].turns # <<>> /\ IsComplete(LastTurn(s))

\* C2: once a process_turn has run _recover_incomplete_turns on a session,
\* whatever happened on the session before, and the process_turn executions
\* from that one on run one at a time, the rounds of the stored turns are
\* exactly 1..N, in stored order.
C2_RoundsAfterRecovery_AnySession ==
  \A t \in Tasks :
    RecoveryRanBy(t) /\ OneAtATimeSince(t) => RoundsAreOneToN(tt[t].sid)

\* C2 amended: once _recover_incomplete_turns has run on a session whose
\* process_turn executions never overlapped, the rounds of its stored turns
\* are exactly 1..N, in stored order, also after each later process_turn.
C2_RoundsAfterRecovery ==
  \A s \in SessionIds : RecoveryHasRun(s) /\ s \notin overlapped => RoundsAreOneToN(s)

\* C2 witness: recovery removed the incomplete opening turn of a session, and
\* two process_turn executions, one after the other, appended rounds 1 and 2.
C2_Witness ==
  \E s \in SessionIds :
    /\ InsertedByStartAdventure(s) /\ s \notin overlapped
    /\ Rounds(db[s].turns) = <<1, 2>>
    /\ db[s].turns[1].choice_made # NULL

\* C3: running recovery on the result of recovery changes nothing and
\* reports that nothing was to be recovered.
C3_RecoveryIdempotent ==
  \A s \in SessionIds :
    LET once == Recover(db[s])
    IN Recover(once) = once /\ ~RecoveryNeeded(once.turns)

\* C3 witness: a session with an incomplete turn, on which recovery has an effect.
C3_Witness ==
  \E s \in SessionIds : RecoveryNeeded(db[s].turns) /\ Recover(db[s]) # db[s]

\* Steps of a process_turn_async coroutine, told by its position before and after.
PersistStep(t) == tt[t].pc = "generate" /\ tt'[t].pc = "done"
TurnFailsStep(t) == tt[t].pc = "generate" /\ tt'[t].pc = "mark_error"
MarkErrorStep(t) == tt[t].pc = "mark_write" /\ tt'[t].pc = "failed"
ParseError == "Invalid response from narrator"

\* Round of the last complete turn of a document, 0 when it has none.
LastGoodRound(doc) ==
  LET good == CompleteTurns(doc.turns)
  IN IF good = <<>> THEN 0 ELSE good[Len(good)].round

\* C4: when the narrator's reply is not JSON, process_turn raises without
\* having written to the session (its recovery step has not removed a turn nor
\* reset round, and the raise itself writes nothing); process_turn_async then
\* sets generation_status to "error"; and a later successful process_turn on
\* that session, run on its own, appends one turn whose round is the last good
\* round + 1 and sets generation_status to "ready".
C4_ParseFailureLeavesSession ==
  /\ [](\A t \in Tasks :
          tt[t].pc = "mark_error" /\ tt[t].error = ParseError => ~tt[t].recovered)
  /\ [][\A t \in Tasks :
          /\ TurnFailsStep(t) => db' = db
          /\ MarkErrorStep(t) /\ tt[t].error = ParseError =>
               db'[tt[t].sid].generation_status = "error"
          /\ ( /\ PersistStep(t)
               /\ tt[t].sid \notin overlapped
               /\ \E u \in Tasks : tt[u].pc = "failed" /\ tt[u].sid = tt[t].sid ) =>
               LET before == db[tt[t].sid]
                   after == db'[tt[t].sid]
               IN /\ Len(after.turns) = Len(before.turns) + 1
                  /\ after.turns[Len(after.turns)].round = LastGoodRound(before) + 1
                  /\ after.generation_status = "ready"]_vars

\* The safety reply among the replies a run received.
SafetyReplyOf(replies) == SafetyReplies[replies.safety]

\* C5: when the safety classifier answers "unsafe" (in any letter case), the
\* story_text persisted in the new turn and returned by process_turn, and the
\* one start_adventure persists in Turn 1, is the fallback string.
C5_UnsafeGivesFallback ==
  [][ /\ \A t \in Tasks :
           PersistStep(t) /\ SaysUnsafe(SafetyReplyOf(tt[t].replies)) =>
             /\ db'[tt[t].sid].turns[Len(db'[tt[t].sid].turns)].story_text = TurnFallbackStory
             /\ tt'[t].ret = TurnFallbackStory
      /\ \A k \in Starts :
           ( fs[k].pc = "create" /\ fs'[k].pc = "image"
             /\ SaysUnsafe(SafetyReplyOf(fs'[k].replies)) ) =>
             db'[fs'[k].new_sid].turns[1].story_text = StartFallbackStory ]_vars

\* generate_first_story has ended and none of its external calls (narrator,
\* scene prompt, scene intensity) had failed.
FirstStoryRanWithoutFailure(k) == fs[k].pc = "failed" /\ fs[k].error = "variance"

\* C6: once generate_first_story has run to its end with no external call
\* failing, and no turn was requested on it, the session created by
\* create_session has exactly one turn, of round 1, and generation_status
\* "ready".
C6_FirstStoryUnderSameId ==
  \A k \in Starts :
    FirstStoryRanWithoutFailure(k) /\ (\A t \in Tasks : tt[t].sid # fs[k].sid) =>
      /\ Len(db[fs[k].sid].turns) = 1
      /\ db[fs[k].sid].turns[1].round = 1
      /\ db[fs[k].sid].generation_status = "ready"

\* C7: every accepted turn request leads to the session being "ready" or
\* "error" (it does not stay "generating" forever); the step that ends a
\* successful run appends a turn and sets "ready", the step that ends a failed
\* run sets "error" and records generation_error.
C7_TurnRequestSettles ==
  /\ \A t \in Tasks :
       (tt[t].pc = "recover") ~>
         ( /\ tt[t].sid \in SessionIds
           /\ db[tt[t].sid].generation_status \in {"ready", "error"} )
  /\ [][\A t \in Tasks :
          /\ PersistStep(t) =>
               /\ db'[tt[t].sid].generation_status = "ready"
               /\ Len(db'[tt[t].sid].turns) = Len(db[tt[t].sid].turns) + 1
          /\ MarkErrorStep(t) =>
               /\ db'[tt[t].sid].generation_status = "error"
               /\ db'[tt[t].sid].generation_error # NULL]_vars

\* A step in which the image coroutine of task t takes its except branch and
\* ends.
JobFailureStep(t) ==
  job[t].pc \in {"mark", "generate"} /\ job'[t].pc \in {"failed", "raised"}

\* C8: whichever step of generate_choice_based_image fails, the job ends with
\* pending_image failed for its round, the error recorded and no image url,
\* and it leaves every turn (image_url, story_text, choices) as it was.
C8_ImageFailureRecorded ==
  [][\A t \in Tasks :
       JobFailureStep(t) =>
         LET pending == db'[job[t].sid].pending_image
         IN /\ pending # <<>>
            /\ pending[1].status = "failed"
            /\ pending[1].round = job[t].round
            /\ pending[1].error # NULL
            /\ pending[1].image_url = NULL
            /\ db'[job[t].sid].turns = db[job[t].sid].turns]_vars

\* A step in which the blocking round-1 image of start_adventure fails.
FirstImageFailureStep(k) == fs[k].pc = "image" /\ fs'[k].pc = "failed"

\* C9: a failing image (round 1 in start_adventure, later rounds in the image
\* job) turns no session to "error" and leaves the round's turn complete; a
\* session turns to "error" only where a narrator, parse or persistence
\* failure is handled.
C9_ImageFailureNeverError ==
  [][ /\ \A k \in Starts :
           FirstImageFailureStep(k) =>
             /\ \A s \in DOMAIN db :
                  db'[s].generation_status = "error" => db[s].generation_status = "error"
             /\ \A i \in 1..Len(db'[fs[k].new_sid].turns) :
                  db'[fs[k].new_sid].turns[i].round = 1 =>
                    IsComplete(db'[fs[k].new_sid].turns[i])
      /\ \A t \in Tasks :
           JobFailureStep(t) =>
             /\ \A s \in DOMAIN db :
                  db'[s].generation_status = "error" => db[s].generation_status = "error"
             /\ \A i \in 1..Len(db'[job[t].sid].turns) :
                  db'[job[t].sid].turns[i].round = job[t].round =>
                    IsComplete(db'[job[t].sid].turns[i])
      /\ \A s \in DOMAIN db :
           db'[s].generation_status = "error" /\ db[s].generation_status # "error" =>
             \/ \E t \in Tasks : MarkErrorStep(t) /\ tt[t].sid = s
             \/ \E k \in Starts :
                  fs[k].pc = "create" /\ fs'[k].pc = "failed" /\ fs[k].sid = s ]_vars

\* C10: every stored turn has completed_at set, whatever its image_url; and a
\* complete turn stays where it is, complete, through every later step
\* (recovery, image job success or failure).
C10_TurnsStoredComplete ==
  /\ [](\A s \in SessionIds : \A i \in 1..Len(db[s].turns) : IsComplete(db[s].turns[i]))
  /\ [][\A s \in DOMAIN db : \A i \in 1..Len(db[s].turns) :
          IsComplete(db[s].turns[i]) =>
            /\ i <= Len(db'[s].turns)
            /\ IsComplete(db'[s].turns[i])
            /\ db'[s].turns[i].round = db[s].turns[i].round]_vars

\* C11: once start_adventure has inserted the opening turn and has run to its
\* end with no external call failing, the session it inserted has a Turn 1
\* with round 1, no choice_made and completed_at set.
C11_OpeningTurnComplete ==
  \A k \in Starts :
    FirstStoryRanWithoutFailure(k) /\ fs[k].new_sid # 0 =>
      LET turns == db[fs[k].new_sid].turns
      IN /\ turns # <<>>
         /\ turns[1].round = 1
         /\ turns[1].choice_made = NULL
         /\ IsComplete(turns[1])

\* C12: a turn stored with completed_at set stays in its place through every
\* later step, with the same round, choice_made, story_text, choices and
\* completed_at; its image_url changes only from null to a URL.
C12_CompleteTurnPermanent ==
  [][\A s \in DOMAIN db : \A i \in 1..Len(db[s].turns) :
       IsComplete(db[s].turns[i]) =>
         /\ i <= Len(db'[s].turns)
         /\ db'[s].turns[i].round = db[s].turns[i].round
         /\ db'[s].turns[i].choice_made = db[s].turns[i].choice_made
         /\ db'[s].turns[i].story_text = db[s].turns[i].story_text
         /\ db'[s].turns[i].choices = db[s].turns[i].choices
         /\ db'[s].turns[i].completed_at = db[s].turns[i].completed_at
         /\ \/ db'[s].turns[i].image_url = db[s].turns[i].image_url
            \/ db[s].turns[i].image_url = NULL]_vars

\* The entries of a registry list, as a set.
Entries(registry) == {registry[i] : i \in 1..Len(registry)}

\* C13: on a session whose turns run one after another, every character of
\* the registry is still there after each step, with the same description and
\* first_seen_round and a last_seen_round that has not decreased.
C13_CharactersImmutable ==
  [][\A s \in DOMAIN db :
       s \notin overlapped' =>
         \A c \in Entries(db[s].character_registry) :
           \E d \in Entries(db'[s].character_registry) :
             /\ d.name = c.name
             /\ d.description = c.description
             /\ d.first_seen_round = c.first_seen_round
             /\ d.last_seen_round >= c.last_seen_round]_vars

\* C14: every entry of every session's character registry has a non-empty
\* description.
C14_RegistryEntriesDescribed ==
  \A s \in SessionIds :
    \A c \in Entries(db[s].character_registry) : Truthy(c.description)

\* All ways to reorder a list of n elements.
Perms(n) == {p \in [1..n -> 1..n] : \A i, j \in 1..n : p[i] = p[j] => i = j}

\* Names of a list of characters, and the observations of known characters.
Names(chars) == {chars[i].name : i \in 1..Len(chars)}
OccursOnce(chars, name) ==
  Cardinality({i \in 1..Len(chars) : chars[i].name = name}) = 1

\* C15: for an observed list in which no unknown name is observed twice,
\* merging any reordering of the list gives the same registry contents, and
\* so does merging the list with one more observation of a known character.
C15_MergeOrderInsensitive ==
  pure.op = "merged" =>
    LET known == Names(pure.registry)
        n == Len(pure.observed)
    IN (\A name \in Names(pure.observed) \ known : OccursOnce(pure.observed, name)) =>
         /\ \A p \in Perms(n) :
              Entries(MergeCharacters(pure.registry,
                                      [i \in 1..n |-> pure.observed[p[i]]],
                                      pure.round))
                = Entries(pure.result)
         /\ \A i \in 1..n :
              pure.observed[i].name \in known =>
                Entries(MergeCharacters(pure.registry,
                                        Append(pure.observed, pure.observed[i]),
                                        pure.round))
                  = Entries(pure.result)

\* C15 witness: a merge of three observations, two of them of the same known
\* character, that changed the registry.
C15_Witness ==
  /\ pure.op = "merged"
  /\ Len(pure.observed) = 3
  /\ \E i, j \in 1..3 :
       /\ i # j
       /\ pure.observed[i].name = pure.observed[j].name
       /\ pure.observed[i].name \in Names(pure.registry)
  /\ Entries(pure.result) # Entries(pure.registry)

\* The lines of a rendered history, as a set.
RenderedLines(history) == {history.lines[i] : i \in 1..Len(history.lines)}

\* C16: the history rendered for round 10 and for every later round holds
\* neither the story text nor the choice of rounds 1 to 4, and never more
\* than the lines of recent_turns_to_keep + summarization_interval turns.
C16_OldRoundsNotRendered ==
  pure.op = "history" /\ pure.round >= 10 =>
    /\ \A r \in 1..4 :
         /\ StoryOf(r) \notin RenderedLines(pure.result)
         /\ ("[Wahl]: " \o ChoiceOf(r)) \notin RenderedLines(pure.result)
    /\ Len(pure.result.lines) <= 2 * (recent_turns_to_keep + summarization_interval)

\* The step in which the router accepts a turn request for task t.
TurnRequestStep(t) == tt[t].pc = "idle" /\ tt'[t].pc = "recover"

\* C17: a turn request accepted on a session in "error" sets it to
\* "generating"; and when that turn, run on its own, succeeds, the session is
\* "ready" with one turn more than it had when the request was accepted.
C17_ErrorNotSticky ==
  [][\A t \in Tasks :
       /\ TurnRequestStep(t) /\ db[tt'[t].sid].generation_status = "error" =>
            db'[tt'[t].sid].generation_status = "generating"
       /\ ( /\ PersistStep(t)
            /\ tt[t].before.status = "error"
            /\ tt[t].sid \notin overlapped ) =>
            /\ db'[tt[t].sid].generation_status = "ready"
            /\ Len(db'[tt[t].sid].turns) = tt[t].before.turns + 1]_vars

\* C17 witness: a turn accepted on a session in "error" has succeeded, and
\* the session is "ready" with one more turn.
C17_Witness ==
  \E t \in Tasks :
    /\ tt[t].pc = "done"
    /\ tt[t].before.status = "error"
    /\ tt[t].sid \notin overlapped
    /\ db[tt[t].sid].generation_status = "ready"
    /\ Len(db[tt[t].sid].turns) = tt[t].before.turns + 1

\* C18: a session holds an error message only while its status is "error".
C18_ErrorMessageOnlyInError ==
  \A s \in SessionIds :
    db[s].generation_error # NULL => db[s].generation_status = "error"

\* C19: for every session in "ready", the status poll answers 200 with status
\* "ready" and the story text and choices of the session's latest turn.
C19_PollReturnsLatestTurn ==
  \A s \in SessionIds :
    db[s].generation_status = "ready" /\ db[s].turns # <<>> =>
      LET response == GetStoryStatus(db[s])
      IN /\ response.code = 200
         /\ response.status = "ready"
         /\ response.story_text = LastTurn(s).story_text
         /\ response.choices = LastTurn(s).choices

\* The status changes the design allows.
AllowedTransitions ==
  { <<"generating", "ready">>, <<"generating", "error">>, <<"ready", "generating">>,
    <<"ready", "error">>, <<"error", "generating">> }

\* C20: every step that changes a session's generation_status changes it along
\* an allowed transition; none takes it from "error" straight to "ready".
C20_StatusTransitions ==
  [][\A s \in DOMAIN db :
       db'[s].generation_status # db[s].generation_status =>
         <<db[s].generation_status, db'[s].generation_status>> \in AllowedTransitions]_vars

\* The replies drawn by task t while it generates, and a step taken by task t.
RepliesOf(t) == tt[t].replies
NarratorReplyOf(t) == NarratorReplies[RepliesOf(t).narrator]
StepOf(t) == tt'[t] # tt[t]

\* A step of the except branch of process_turn_async (its recovery read and
\* write, and its error mark).
ExceptBranchStep(t) ==
  tt[t].pc \in {"mark_error", "mark_recover_write", "mark_write"} /\ StepOf(t)

\* C21 as stated: when the fun-fact call or the narrator call of a turn fails,
\* the turn is aborted: its process_turn appends no turn.
C21_EitherFailureAborts ==
  [][\A t \in Tasks :
       ( /\ tt[t].pc = "generate" /\ StepOf(t)
         /\ (RepliesOf(t).nugget = "error" \/ NarratorReplyOf(t).kind = "error") ) =>
         Len(db'[tt[t].sid].turns) <= Len(db[tt[t].sid].turns)]_vars

\* C21 amended: a failing narrator call aborts the turn (process_turn raises
\* and appends nothing, nor does the handling of the exception); a failing
\* fun-fact call does not: the turn is appended with the default fun nugget.
C21_NarratorFailureAborts ==
  [][\A t \in Tasks :
       /\ ( tt[t].pc = "generate" /\ StepOf(t) /\ NarratorReplyOf(t).kind = "error" ) =>
            TurnFailsStep(t) /\ db' = db
       /\ ExceptBranchStep(t) =>
            Len(db'[tt[t].sid].turns) <= Len(db[tt[t].sid].turns)
       /\ ( PersistStep(t) /\ RepliesOf(t).nugget = "error" ) =>
            /\ Len(db'[tt[t].sid].turns) = Len(db[tt[t].sid].turns) + 1
            /\ db'[tt[t].sid].turns[Len(db'[tt[t].sid].turns)].fun_nugget = DefaultFunNugget
            /\ db'[tt[t].sid].generation_status = "ready"]_vars

\* C21 witness: one turn whose fun-fact call failed was appended with the
\* default fun nugget, and another turn, whose narrator call failed, ended in
\* the except branch.
C21_Witness ==
  \E t, u \in Tasks :
    /\ tt[t].pc = "done"
    /\ \E i \in 1..Len(db[tt[t].sid].turns) :
         /\ db[tt[t].sid].turns[i].choice_made # NULL
         /\ db[tt[t].sid].turns[i].fun_nugget = DefaultFunNugget
    /\ tt[u].pc = "failed"
    /\ db[tt[u].sid].generation_error = "narrator"

\* The fields the narrator's JSON object must have.
RequiredFields == {"story_text", "choice_1", "choice_2", "choice_3"}

\* A turn with an empty story text or an empty choice.
HasEmptyText(turn) ==
  ~Truthy(turn.story_text) \/ \E j \in 1..Len(turn.choices) : ~Truthy(turn.choices[j])

\* The narrator reply of the coroutine run on its own, the session it runs
\* on, and how far it has come: its process_turn has made its external
\* calls, process_turn has raised, the coroutine has ended.
PureNarratorReply == NarratorReplies[pure.replies.narrator]
SoloDoc == db[tt[Solo].sid]
SoloGenerated == tt[Solo].pc \notin {"recover", "recover_write", "load", "generate"}
SoloRaised == SoloGenerated /\ tt[Solo].pc # "done"
SoloEnded == tt[Solo].pc \in {"done", "failed", "raised"}

\* C22: when the narrator's JSON object lacks story_text or one of the three
\* choices, process_turn raises and appends nothing; and no turn with an
\* empty story text or an empty choice is appended.
C22_MissingFieldsFatal ==
  pure.op = "turn_run" /\ SoloEnded =>
    /\ ( /\ PureNarratorReply.kind = "json"
         /\ ~(RequiredFields \subseteq DOMAIN PureNarratorReply.data) ) =>
         SoloRaised /\ SoloDoc.turns = pure.doc.turns
    /\ \A i \in 1..Len(SoloDoc.turns) : ~HasEmptyText(SoloDoc.turns[i])

\* C23: in every session's registry, no two entries have the same name.
C23_NamesUnique ==
  \A s \in SessionIds :
    \A i, j \in 1..Len(db[s].character_registry) :
      db[s].character_registry[i].name = db[s].character_registry[j].name => i = j

\* Positions of the turns of a list that have completed_at set, and the
\* position of the j-th of them.
CompletePositions(turns) == {i \in 1..Len(turns) : turns[i].completed_at # NULL}
NthComplete(turns, j) ==
  CHOOSE i \in CompletePositions(turns) :
    Cardinality({k \in CompletePositions(turns) : k <= i}) = j

\* C24: on a stored session with an incomplete turn, _recover_incomplete_turns
\* leaves exactly the complete turns, in their order, sets round to their
\* number and generation_status to "ready" when one remains and to "error"
\* otherwise, and reports True; on a session without incomplete turns (or
\* without turns) it changes nothing and reports False.
C24_RecoveryRemovesIncomplete ==
  pure.op = "recover_run" /\ tt[Solo].pc \in {"load", "generate"} =>
    LET before == pure.doc
        after == SoloDoc
        returned == tt[Solo].recovered
        kept == CompletePositions(before.turns)
    IN IF Cardinality(kept) = Len(before.turns)
       THEN after = before /\ ~returned
       ELSE /\ returned
            /\ Len(after.turns) = Cardinality(kept)
            /\ \A j \in 1..Len(after.turns) :
                 after.turns[j] = before.turns[NthComplete(before.turns, j)]
            /\ after.round = Cardinality(kept)
            /\ after.generation_status = IF kept # {} THEN "ready" ELSE "error"
            /\ after.summary = before.summary
            /\ after.character_registry = before.character_registry
            /\ after.generation_error = before.generation_error

\* C24 witness: recovery removed the incomplete second of three turns of a
\* session in "error" and left rounds 1 and 3, round 2 and status "ready".
C24_Witness ==
  /\ pure.op = "recover_run" /\ tt[Solo].pc = "load" /\ tt[Solo].recovered
  /\ pure.doc.generation_status = "error"
  /\ Len(pure.doc.turns) = 3
  /\ CompletePositions(pure.doc.turns) = {1, 3}
  /\ Rounds(SoloDoc.turns) = <<1, 3>>
  /\ SoloDoc.round = 2
  /\ SoloDoc.generation_status = "ready"

\* The history lines of rounds a..b of a session whose turns were processed
\* one by one: for each round the choice made, then the story text.
ExpectedLines(a, b) ==
  [k \in 1..(2 * (b - a + 1)) |->
     IF k % 2 = 1 THEN "[Wahl]: " \o ChoiceOf(a + (k - 1) \div 2)
     ELSE StoryOf(a + (k - 2) \div 2)]

\* The round of the coroutine run on its own is a compaction round.
Triggered ==
  /\ (pure.round % summarization_interval) = 0
  /\ Len(pure.doc.turns) > recent_turns_to_keep

\* C25: process_turn calls the summarizer exactly when the new round is a
\* multiple of summarization_interval and more than recent_turns_to_keep turns
\* are stored; it then sends the turns before the last recent_turns_to_keep
\* to the summarizer, and renders the narrator's history from the last
\* recent_turns_to_keep turns and the summary with the new part appended.
C25_CompactionTrigger ==
  pure.op = "turn_run" /\ SoloGenerated =>
    LET n == Len(pure.doc.turns)
        sent == pure.result
    IN /\ sent.summarizer_called <=> Triggered
       /\ Triggered =>
            /\ sent.summarizer_input = ExpectedLines(1, n - recent_turns_to_keep)
            /\ sent.history.lines = ExpectedLines(n - recent_turns_to_keep + 1, n)
            /\ Len(sent.history.summary) = Len(pure.doc.summary) + 1
            /\ SubSeq(sent.history.summary, 1, Len(pure.doc.summary)) = pure.doc.summary
            /\ ~SoloRaised => sent.history.summary = SoloDoc.summary

\* C25 witness: the turn of round 15 sent rounds 1 to 9 to the summarizer and
\* rendered rounds 10 to 14 for the narrator.
C25_Witness ==
  /\ pure.op = "turn_run" /\ pure.round = 15 /\ tt[Solo].pc = "done"
  /\ pure.result.summarizer_called
  /\ Len(pure.result.summarizer_input) = 18
  /\ pure.result.history.lines[1] = "[Wahl]: choice 10"
  /\ pure.result.history.lines[10] = "story 14"

\* One list is the beginning of another.
IsPrefix(a, b) == Len(a) <= Len(b) /\ SubSeq(b, 1, Len(a)) = a

\* C26: through a process_turn the stored summary is the one stored before, or
\* that one followed by the text the summarizer call produced; the summary
\* stored after any earlier round is a beginning of it; and it changes only
\* together with an appended turn (never when the turn failed).
C26_SummaryAppendOnly ==
  pure.op = "turn_run" =>
    LET before == pure.doc.summary
        after == SoloDoc.summary
    IN /\ \/ after = before
          \/ /\ Len(after) = Len(before) + 1
             /\ IsPrefix(before, after)
             /\ after[Len(after)].text \in {"summary", SummaryPlaceholder}
       /\ \A m \in 0..(pure.round - 1) : IsPrefix(SessionAfter(m).summary, after)
       /\ tt[Solo].pc # "done" => after = before
       /\ after # before =>
            Len(SoloDoc.turns) = Len(pure.doc.turns) + 1

\* C26 witness: the turn of round 15 appended a second part to the summary
\* stored since round 10.
C26_Witness ==
  /\ pure.op = "turn_run" /\ pure.round = 15 /\ tt[Solo].pc = "done"
  /\ Len(pure.doc.summary) = 1
  /\ Len(SoloDoc.summary) = 2
  /\ SoloDoc.summary[1] = pure.doc.summary[1]

\* The turn a successful process_turn appended.
AppendedTurn == SoloDoc.turns[Len(SoloDoc.turns)]

\* C27: when the summarization call of a compaction round fails (and the
\* narrator's reply parses), process_turn does not raise because of it: it
\* can store its turn, the only exception it can raise is that of its
\* update_one, and when it has returned the turn is appended, the session is
\* "ready", and the rolling summary stored is the previous one followed by
\* the placeholder, which is also what the narrator history carries.
C27_SummarizerFailureAbsorbed ==
  ( /\ pure.op = "turn_run"
    /\ Triggered
    /\ pure.replies.summarizer = "error"
    /\ PureNarratorReply.kind = "json" ) =>
    LET before == pure.doc
        after == SoloDoc
    IN /\ tt[Solo].pc = "generate" => ENABLED Persist(Solo)
       /\ tt[Solo].error \in {NULL, "persist"}
       /\ tt[Solo].pc = "done" =>
            /\ pure.result.summarizer_called
            /\ Len(after.turns) = Len(before.turns) + 1
            /\ AppendedTurn.round = pure.round
            /\ after.generation_status = "ready"
            /\ Len(after.summary) = Len(before.summary) + 1
            /\ IsPrefix(before.summary, after.summary)
            /\ after.summary[Len(after.summary)].text = SummaryPlaceholder
            /\ pure.result.history.summary = after.summary

\* C27 witness: the summarization call of round 10 failed, and the turn of
\* round 10 is stored with the placeholder as the session's summary.
C27_Witness ==
  /\ pure.op = "turn_run" /\ pure.round = 10 /\ tt[Solo].pc = "done"
  /\ pure.replies.summarizer = "error"
  /\ pure.result.summarizer_called
  /\ Len(SoloDoc.turns) = 10
  /\ SoloDoc.generation_status = "ready"
  /\ pure.doc.summary = <<>>
  /\ Len(SoloDoc.summary) = 1
  /\ SoloDoc.summary[1].text = SummaryPlaceholder

\* C28: when the safety-classifier call itself fails (and the narrator's
\* reply parses), process_turn does not raise because of it: it can store
\* its turn, the only exception it can raise is that of its update_one, and
\* when it has returned the turn is appended with the narrator's story text,
\* which is also returned, and the session is "ready".
C28_SafetyFailureAbsorbed ==
  ( /\ pure.op = "turn_run"
    /\ SafetyReplies[pure.replies.safety].kind = "error"
    /\ PureNarratorReply.kind = "json" ) =>
    /\ tt[Solo].pc = "generate" => ENABLED Persist(Solo)
    /\ tt[Solo].error \in {NULL, "persist"}
    /\ tt[Solo].pc = "done" =>
         /\ Len(SoloDoc.turns) = Len(pure.doc.turns) + 1
         /\ AppendedTurn.round = pure.round
         /\ AppendedTurn.story_text = Get(PureNarratorReply.data, "story_text", "")
         /\ tt[Solo].ret = AppendedTurn.story_text
         /\ SoloDoc.generation_status = "ready"

\* C28 witness: the classifier call failed, and the turn is stored with the
\* narrator's text "draft".
C28_Witness ==
  /\ pure.op = "turn_run" /\ tt[Solo].pc = "done"
  /\ SafetyReplies[pure.replies.safety].kind = "error"
  /\ pure.doc.turns # <<>>
  /\ AppendedTurn.story_text = "draft"
  /\ AppendedTurn.completed_at # NULL
  /\ SoloDoc.generation_status = "ready"

\* Steps that start image generation: process_turn launching its image
\* coroutine, and start_adventure going on to its round-1 image.
JobLaunchStep(t) == job[t].pc = "none" /\ job'[t].pc = "mark"
FirstImageStartStep(k) == fs[k].pc = "create" /\ fs'[k].pc = "image"

\* The session has a complete turn of round r and is "ready".
TurnStoredComplete(doc, r) ==
  /\ \E i \in 1..Len(doc.turns) : doc.turns[i].round = r /\ IsComplete(doc.turns[i])
  /\ doc.generation_status = "ready"

\* C29: for every round, round 1 included, image generation starts only once
\* the round's turn is stored with completed_at set and the session is
\* "ready", and the operation that produced the turn returns without waiting
\* for the image.
C29_ImageAfterCompletion ==
  [][ /\ \A t \in Tasks :
           JobLaunchStep(t) =>
             TurnStoredComplete(db'[job'[t].sid], job'[t].round) /\ tt'[t].pc = "done"
      /\ \A k \in Starts :
           FirstImageStartStep(k) =>
             TurnStoredComplete(db'[fs'[k].new_sid], 1) /\ fs'[k].pc = "done" ]_vars

\* The next /turn request is handled by the first task that is still idle.
NextTask(t) == tt[t].pc = "idle" /\ \A j \in 1..(t - 1) : tt[j].pc # "idle"

\* Number of stored turns of a document that carry round r.
TurnsOfRound(doc, r) == Cardinality({i \in 1..Len(doc.turns) : doc.turns[i].round = r})

\* C31: a turn request is accepted on every session whatever its status, also
\* while it is "generating"; a process_turn writes what it computed from the
\* session it loaded (a turn of the loaded round + 1, and the loaded registry
\* merged with its own observations) whatever was written since: a stored
\* turn of that round gets a second one beside it, and a process_turn that
\* loaded the same round and has not persisted yet goes on to write the round
\* that is now stored; the registry is always the latest writer's.
C31_NoMutualExclusion ==
  /\ [](\A t \in Tasks, s \in SessionIds : NextTask(t) => ENABLED TurnRequest(t, s))
  /\ [][\A t \in Tasks :
          PersistStep(t) =>
            LET s == tt[t].sid
                loaded == tt[t].session
                r == loaded.round + 1
            IN /\ Len(db'[s].turns) = Len(db[s].turns) + 1
               /\ SubSeq(db'[s].turns, 1, Len(db[s].turns)) = db[s].turns
               /\ db'[s].turns[Len(db'[s].turns)].round = r
               /\ db'[s].round = r
               /\ db'[s].character_registry =
                    MergeCharacters(loaded.character_registry,
                                    ExtractCharacters(NarratorReplyOf(t).data, r), r)
               /\ TurnsOfRound(db'[s], r) = TurnsOfRound(db[s], r) + 1
               /\ \A u \in Tasks \ {t} :
                    ( /\ tt[u].pc = "generate" /\ tt[u].sid = s
                      /\ tt[u].session.round = loaded.round ) =>
                      /\ tt'[u] = tt[u]
                      /\ tt'[u].session.round + 1 = db'[s].round]_vars

\* C31 witness: on a session that was "generating" when the second request
\* was accepted, both process_turn executions have appended a turn of round 1
\* (the earlier one with the fun fact, the later one with the default nugget),
\* and the registry holds the later writer's Mira only.
C31_Witness ==
  \E t, u \in Tasks :
    LET doc == db[tt[t].sid] IN
    /\ t # u /\ tt[t].pc = "done" /\ tt[u].pc = "done" /\ tt[u].sid = tt[t].sid
    /\ tt[t].sid \in overlapped
    /\ tt[u].before.status = "generating"
    /\ job[t].round = 1 /\ job[u].round = 1
    /\ Rounds(doc.turns) = <<1, 1>>
    /\ doc.turns[1].fun_nugget = "fun fact"
    /\ doc.turns[2].fun_nugget = DefaultFunNugget
    /\ Len(doc.character_registry) = 1
    /\ doc.character_registry[1].description = "girl with a green hat"

\* The image coroutine of task t has finished.
JobFinished(t) == job[t].pc \in {"failed", "raised"}

\* C32: once the image job of a round has finished, the image poll for that
\* round answers "ready" with the URL or "failed", whatever other image jobs
\* have written to pending_image since.
C32_FinishedImagePollable ==
  \A t \in Tasks :
    JobFinished(t) =>
      LET response == GetImageStatus(db[job[t].sid], job[t].round)
      IN \/ response.status = "ready" /\ response.image_url # NULL
         \/ response.status = "failed"

\* Task t is between the acceptance of its request and the end of process_turn.
BeingGenerated(pc) == pc \in {"recover", "recover_write", "load", "generate"}

\* C33: no step process_turn takes before it persists its turn or raises,
\* its recovery step included, changes the "generating" the router has set.
C33_GeneratingUntilSettled ==
  [][\A t \in Tasks :
       ( /\ BeingGenerated(tt[t].pc) /\ BeingGenerated(tt'[t].pc) /\ StepOf(t)
         /\ db[tt[t].sid].generation_status = "generating" ) =>
         db'[tt[t].sid].generation_status = "generating"]_vars

\* C34: on a session whose process_turn executions never overlapped, the
\* round field equals the number of stored turns and, when there are turns,
\* the round of the last turn; in every state, so also after each completed
\* create_session, start_adventure, process_turn and recovery.
C34_RoundCountsTurns ==
  \A s \in SessionIds :
    s \notin overlapped =>
      /\ db[s].round = Len(db[s].turns)
      /\ db[s].turns # <<>> => LastTurn(s).round = db[s].round

\* C34 witness: on the session start_adventure inserted, a first process_turn
\* removed the incomplete opening turn and failed, and a second one, run after
\* it, appended its turn: one stored turn, round 1.
C34_Witness ==
  \E t, u \in Tasks :
    LET s == tt[t].sid IN
    /\ tt[t].pc = "failed" /\ tt[u].pc = "done" /\ tt[u].sid = s
    /\ s \notin overlapped /\ InsertedByStartAdventure(s)
    /\ Len(db[s].turns) = 1 /\ db[s].round = 1
    /\ LastTurn(s).round = 1 /\ LastTurn(s).choice_made # NULL

\* C35: in every stored session, a turn has no choice_made exactly when its
\* round is 1.
C35_ChoiceNullIffRoundOne ==
  \A s \in SessionIds :
    \A i \in 1..Len(db[s].turns) :
      db[s].turns[i].choice_made = NULL <=> db[s].turns[i].round = 1

\* The JSON body of the reply _analyze_scene_intensity was applied to, after
\* the clean-up; a reply that cannot be parsed has none.
ParsedBody ==
  LET clean == CleanFences(pure.reply.text)
  IN IF pure.reply.kind = "text" /\ Len(clean) = 1 /\ clean[1].kind = "object"
     THEN clean ELSE <<>>

\* C37: _analyze_scene_intensity never raises and returns an integer in 1..5:
\* the classifier's intensity_level when that is an integer in 1..5, and 3
\* when the call fails, the reply cannot be parsed, the field is missing, or
\* the value is out of range or not an integer.
C37_IntensityNeverRaises ==
  pure.op = "intensity" =>
    /\ ~pure.result.raised
    /\ pure.result.value.type = "int" /\ pure.result.value.value \in 1..5
    /\ LET level == IF ParsedBody # <<>>
                    THEN Get(ParsedBody[1].data, "intensity_level", JsonValue("null", 0))
                    ELSE JsonValue("null", 0)
       IN IF level.type = "int" /\ level.value \in 1..5
          THEN pure.result.value = level
          ELSE pure.result.value = DefaultIntensity

\* The descriptions the registry stores for a name.
StoredDescriptions(registry, name) ==
  {c.description : c \in {e \in Entries(registry) : e.name = name /\ Truthy(e.description)}}

\* C38: get_character_descriptions returns a map whose keys are exactly the
\* requested names; a name the registry stores a description for maps to
\* that description, every other name to the empty string.
C38_DescriptionsOfRequested ==
  pure.op = "described" =>
    /\ DOMAIN pure.result = {pure.names[i] : i \in 1..Len(pure.names)}
    /\ \A name \in DOMAIN pure.result :
         IF StoredDescriptions(pure.registry, name) = {}
         THEN pure.result[name] = ""
         ELSE pure.result[name] \in StoredDescriptions(pure.registry, name)

\* The history lines process_turn sent to the summarizer at the earlier round
\* m of the session, as a set (empty when round m did not compact).
SummarizedAt(m) ==
  LET sent == Sent(SessionAfter(m - 1), "ok").summarizer_input
  IN {sent[i] : i \in 1..Len(sent)}

\* C36: the turns process_turn sends to the summarizer at a compaction hold
\* no turn that the compaction of an earlier round of the session has sent.
C36_SummarizedOnce ==
  pure.op = "turn_run" /\ SoloGenerated /\ pure.result.summarizer_called =>
    \A m \in 1..(pure.round - 1) :
      SummarizedAt(m) \cap {pure.result.summarizer_input[i] :
                              i \in 1..Len(pure.result.summarizer_input)} = {}

====
